---- MODULE Spec2Model ----
(***************************************************************************)
(* Model of tgcalls/group/AudioStreamingPart.cpp: the facade               *)
(* AudioStreamingPart, the per-part state machine AudioStreamingPartState  *)
(* (channel reassignment, 10 ms slicing per SSRC, silence fill-in) and     *)
(* the external decode pipeline AudioStreamingPartInternal it drives.      *)
(***************************************************************************)
EXTENDS Integers, Sequences, FiniteSets, TLC

\* ------------------------------------------------------------------------
\* Bounds of the model
\* ------------------------------------------------------------------------

\* longest ChannelUpdate list enumerated exhaustively
MaxUpdates == 2

\* largest channel count a decode reports
MaxChannels == 2

\* largest per-channel sample count a decode reports
MaxSamples == 2

\* successful ticks are cut off once _frameIndex reaches this value
MaxTicks == 6

\* number of SSRCs, and of channels, the mapping table is exercised with
MaxBindings == 3

\* largest size of the byte buffer behind the I/O adapter
MaxFile == 3

\* largest number of records encoded into a parser input
MaxRecords == 2

\* ------------------------------------------------------------------------
\* Input domains
\* ------------------------------------------------------------------------

\* SSRCs carried by the enumerated updates
Ssrcs == {100, 200}

\* frame indices of the enumerated updates
FrameValues == {0, 1}

\* channel ids of the enumerated updates (int, never validated)
ChannelIds == {0, 1}

\* struct ChannelUpdate
ChannelUpdate == [frameIndex : FrameValues, id : ChannelIds, ssrc : Ssrcs]

RECURSIVE SeqsUpTo(_, _)
SeqsUpTo(S, n) ==
    IF n = 0 THEN {<<>>}
    ELSE LET shorter == SeqsUpTo(S, n - 1)
         IN  shorter \cup {Append(q, x) : q \in {r \in shorter : Len(r) = n - 1}, x \in S}

\* a slot handed from SSRC 100 to SSRC 200 at frame 5
ReassignAtFive ==
    << [frameIndex |-> 0, id |-> 0, ssrc |-> 100],
       [frameIndex |-> 5, id |-> 0, ssrc |-> 200] >>

\* two speakers exchanging their slots at frame 1
SwapSlots ==
    << [frameIndex |-> 0, id |-> 0, ssrc |-> 100],
       [frameIndex |-> 0, id |-> 1, ssrc |-> 200],
       [frameIndex |-> 1, id |-> 1, ssrc |-> 100] >>

\* a binding to a negative channel id, replaced one frame later
NegativeChannel ==
    << [frameIndex |-> 0, id |-> -1, ssrc |-> 100],
       [frameIndex |-> 1, id |-> 0, ssrc |-> 200] >>

\* an update with a negative frame index ahead of one due at frame 0
NegativeFrame ==
    << [frameIndex |-> -1, id |-> 0, ssrc |-> 100],
       [frameIndex |-> 0, id |-> 1, ssrc |-> 200] >>

\* the ChannelUpdate lists a part may carry
UpdateLists ==
    SeqsUpTo(ChannelUpdate, MaxUpdates)
        \cup {ReassignAtFive, SwapSlots, NegativeChannel, NegativeFrame}

\* what the pipeline may report of a non-empty blob: the total duration in
\* milliseconds and the endpoint table, as a set of <<name, id>>
PipelineReports ==
    { [duration |-> 0, endpointMapping |-> {}],
      [duration |-> 15, endpointMapping |-> {<<"a", 100>>}] }

\* values an out-of-range read of the PCM buffer may yield
StrayValues == {0, -3}

\* ------------------------------------------------------------------------
\* External decode pipeline (AudioStreamingPartInternal)
\* ------------------------------------------------------------------------

\* interleaved buffer of numSamples * numChannels samples written by readPcm
PcmBuffer(read) ==
    [k \in 1 .. (read.numSamples * read.numChannels) |-> k - 1]

\* reports of readPcm that carry samples
GoodReads == [numSamples : 1 .. MaxSamples, numChannels : 1 .. MaxChannels]

\* reports of readPcm at the end of the decodable data
EndReads == [numSamples : {0, -1}, numChannels : {0}]

\* ------------------------------------------------------------------------
\* Pure helpers of AudioStreamingPartState
\* ------------------------------------------------------------------------

\* absl::nullopt of getCurrentMappedChannelIndex; a value c is <<c>>
NoChannel == <<>>

RemoveAt(table, i) ==
    [k \in 1 .. (Len(table) - 1) |-> IF k < i THEN table[k] ELSE table[k + 1]]

\* variant: an identical binding is not recognised
SameBindingNever(entry, ssrc, channelIndex) == FALSE

\* is the entry the binding being inserted
SameBinding(entry, ssrc, channelIndex) ==
    entry.ssrc = ssrc /\ entry.channelIndex = channelIndex

\* variant: only a binding of the same channel counts as a collision
ConflictsOnChannelOnly(entry, ssrc, channelIndex) == entry.channelIndex = channelIndex

\* variant: only a binding of the same ssrc counts as a collision
ConflictsOnSsrcOnly(entry, ssrc, channelIndex) == entry.ssrc = ssrc

\* does the entry collide with the binding being inserted
Conflicts(entry, ssrc, channelIndex) ==
    entry.ssrc = ssrc \/ entry.channelIndex = channelIndex

\* the backward loop of updateCurrentMapping, at position i (1-based)
RECURSIVE ScanMapping(_, _, _, _)
ScanMapping(table, i, ssrc, channelIndex) ==
    IF i = 0
    THEN Append(table, [ssrc |-> ssrc, channelIndex |-> channelIndex])
    ELSE IF SameBinding(table[i], ssrc, channelIndex)
    THEN table
    ELSE IF Conflicts(table[i], ssrc, channelIndex)
    THEN ScanMapping(RemoveAt(table, i), i - 1, ssrc, channelIndex)
    ELSE ScanMapping(table, i - 1, ssrc, channelIndex)

updateCurrentMapping(table, ssrc, channelIndex) ==
    ScanMapping(table, Len(table), ssrc, channelIndex)

\* first binding of the ssrc, or nullopt
RECURSIVE FindMapped(_, _, _)
FindMapped(table, i, ssrc) ==
    IF i > Len(table) THEN NoChannel
    ELSE IF table[i].ssrc = ssrc THEN <<table[i].channelIndex>>
    ELSE FindMapped(table, i + 1, ssrc)

getCurrentMappedChannelIndex(table, ssrc) == FindMapped(table, 1, ssrc)

\* variant: every update of the current or an earlier frame is applied
IsDueOrPast(update, frame) == update.frameIndex <= frame

\* is the update applied on the tick that starts at this frame
IsDue(update, frame) == update.frameIndex = frame

\* the loop over getChannelUpdates() at the head of get10msPerChannel
RECURSIVE ApplyFrom(_, _, _, _)
ApplyFrom(table, updates, k, frame) ==
    IF k > Len(updates) THEN table
    ELSE IF IsDue(updates[k], frame)
    THEN ApplyFrom(updateCurrentMapping(table, updates[k].ssrc, updates[k].id),
                   updates, k + 1, frame)
    ELSE ApplyFrom(table, updates, k + 1, frame)

\* variant: the loop over the updates is left out
ApplyNothing(table, updates, frame) == table

ApplyDueUpdates(table, updates, frame) == ApplyFrom(table, updates, 1, frame)

\* the list positions at which that loop calls updateCurrentMapping, in order
RECURSIVE DueFrom(_, _, _)
DueFrom(updates, k, frame) ==
    IF k > Len(updates) THEN <<>>
    ELSE IF IsDue(updates[k], frame)
    THEN <<k>> \o DueFrom(updates, k + 1, frame)
    ELSE DueFrom(updates, k + 1, frame)

DuePositions(updates, frame) == DueFrom(updates, 1, frame)

\* _allSsrcs as filled by the constructor
CollectSsrcs(updates) == {updates[k].ssrc : k \in 1 .. Len(updates)}

SetMin(S) == CHOOSE x \in S : \A y \in S : x <= y

SetMax(S) == CHOOSE x \in S : \A y \in S : x >= y

\* variant: the set is walked from its largest member down
RECURSIVE SsrcOrderDescending(_)
SsrcOrderDescending(S) ==
    IF S = {} THEN <<>>
    ELSE <<SetMax(S)>> \o SsrcOrderDescending(S \ {SetMax(S)})

\* iteration order of std::set<uint32_t>
RECURSIVE SsrcOrder(_)
SsrcOrder(S) ==
    IF S = {} THEN <<>>
    ELSE <<SetMin(S)>> \o SsrcOrder(S \ {SetMin(S)})

\* variant: the floor at 0 is missing
DecrementUnfloored(ms) == ms - 10

\* _remainingMilliseconds after a successful tick
DecrementRemaining(ms) == IF ms - 10 < 0 THEN 0 ELSE ms - 10

\* is the 0-based index inside the decoded part of _pcm10ms
InPcm(idx, read) == idx >= 0 /\ idx < read.numSamples * read.numChannels

\* variant: the buffer is read as planar instead of interleaved
SliceIndexPlanar(sourceChannelIndex, j, read) == sourceChannelIndex * read.numSamples + j

\* the 0-based index read for sample j (0-based) of a decoder channel
SliceIndex(sourceChannelIndex, j, read) == sourceChannelIndex + j * read.numChannels

\* _pcm10ms[idx]; stray maps each out-of-range index to the value found there
PcmAt(pcm, idx, read, stray) == IF InPcm(idx, read) THEN pcm[idx + 1] ELSE stray[idx]

\* pcmData of one channel after the push_back loop over j
Deinterleave(pcm, sourceChannelIndex, read, stray) ==
    [j \in 1 .. read.numSamples |->
        PcmAt(pcm, SliceIndex(sourceChannelIndex, j - 1, read), read, stray)]

\* variant: the fill loop stops one sample early
SilenceOneShort(read) == [j \in 1 .. (read.numSamples - 1) |-> 0]

\* pcmData of an unmapped SSRC
Silence(read) == [j \in 1 .. read.numSamples |-> 0]

\* the single-channel branch of get10msPerChannel
SingleChannels(pcm, read) ==
    [i \in 1 .. read.numChannels |->
        [ssrc |-> i,
         pcmData |-> Deinterleave(pcm, i - 1, read, <<>>),
         numSamples |-> 0 + read.numSamples]]

\* one entry of the multiplexed branch
MappedChannel(table, ssrc, pcm, read, stray) ==
    LET mappedChannelIndex == getCurrentMappedChannelIndex(table, ssrc)
    IN  IF mappedChannelIndex # NoChannel
        THEN [ssrc |-> ssrc,
              pcmData |-> Deinterleave(pcm, mappedChannelIndex[1], read, stray),
              numSamples |-> 0 + read.numSamples]
        ELSE [ssrc |-> ssrc,
              pcmData |-> Silence(read),
              numSamples |-> 0 + read.numSamples]

\* the multiplexed branch of get10msPerChannel
MultiplexedChannels(table, ssrcs, pcm, read, stray) ==
    LET order == SsrcOrder(ssrcs)
    IN  [i \in 1 .. Len(order) |-> MappedChannel(table, order[i], pcm, read, stray)]

\* indices of _pcm10ms the multiplexed branch reads
SliceIndices(table, ssrcs, read) ==
    {SliceIndex(getCurrentMappedChannelIndex(table, s)[1], j, read) :
        s \in {x \in ssrcs : getCurrentMappedChannelIndex(table, x) # NoChannel},
        j \in 0 .. (read.numSamples - 1)}

\* those of them outside the decoded samples
StrayIndices(table, ssrcs, read) ==
    {idx \in SliceIndices(table, ssrcs, read) : ~InPcm(idx, read)}

\* ------------------------------------------------------------------------
\* State
\* ------------------------------------------------------------------------

VARIABLES
    dataEmpty,                \* was the part constructed from an empty vector
    isSingleChannel,          \* _isSingleChannel
    channelUpdates,           \* _parsedPart.getChannelUpdates()
    duration,                 \* _parsedPart.getDurationInMilliseconds()
    endpointMapping,          \* _parsedPart.getEndpointMapping()
    hasState,                 \* AudioStreamingPart::_state != nullptr
    allSsrcs,                 \* _allSsrcs
    pcm10ms,                  \* _pcm10ms
    currentChannelMapping,    \* _currentChannelMapping
    frameIndex,               \* _frameIndex
    remainingMilliseconds,    \* _remainingMilliseconds
    didReadToEnd,             \* _didReadToEnd
    faulted,                  \* the process died on an out-of-range read
    decoderCalls,             \* number of readPcm calls made so far
    appliedLog,               \* list positions of the updates handed to
                              \* updateCurrentMapping so far, in call order
    lastCall,                 \* the latest call: its name, the report of its
                              \* readPcm call (<<>> if it made none) and its
                              \* return value
    parser,                   \* a run of parseChannelUpdates
    avio,                     \* an AVIOContextImpl and its latest call
    rule                      \* a mapping table under updateCurrentMapping

config == <<dataEmpty, isSingleChannel, channelUpdates, duration, endpointMapping>>

part == <<hasState, allSsrcs, pcm10ms, currentChannelMapping, frameIndex,
          remainingMilliseconds, didReadToEnd>>

observed == <<faulted, decoderCalls, appliedLog, lastCall>>

\* the components exercised on their own
units == <<parser, avio, rule>>

vars == <<config, part, observed, units>>

\* the record of a call
Returned(op, read, ret) == [op |-> op, read |-> read, ret |-> ret]

\* ------------------------------------------------------------------------
\* Construction
\* ------------------------------------------------------------------------

\* value of a component that the specification at hand does not exercise
Unused == [pc |-> "unused"]

\* variant: the state object is created for an empty vector too
OwnsStateAlways(empty) == TRUE

\* AudioStreamingPart::AudioStreamingPart: is a state object created
OwnsState(empty) == ~empty

\* the early return of the AudioStreamingPartState constructor
TerminalAtConstruction(updates, single) == Len(updates) = 0 /\ ~single

\* variant: the duration is read before the early return
RemainingSeededFirst(updates, single, total) == total

\* _remainingMilliseconds after the constructor
RemainingAtConstruction(updates, single, total) ==
    IF TerminalAtConstruction(updates, single) THEN 0 ELSE total

\* _allSsrcs after the constructor
SsrcsAtConstruction(updates, single) ==
    IF TerminalAtConstruction(updates, single) THEN {} ELSE CollectSsrcs(updates)

PartInit ==
    /\ dataEmpty \in BOOLEAN
    /\ isSingleChannel \in BOOLEAN
    /\ channelUpdates \in (IF dataEmpty THEN {<<>>} ELSE UpdateLists)
    /\ \E report \in (IF dataEmpty THEN {[duration |-> 0, endpointMapping |-> {}]}
                       ELSE PipelineReports) :
          /\ duration = report.duration
          /\ endpointMapping = report.endpointMapping
    /\ hasState = OwnsState(dataEmpty)
    /\ allSsrcs = IF hasState THEN SsrcsAtConstruction(channelUpdates, isSingleChannel)
                  ELSE {}
    /\ pcm10ms = <<>>
    /\ currentChannelMapping = <<>>
    /\ frameIndex = 0
    /\ remainingMilliseconds =
          IF hasState
          THEN RemainingAtConstruction(channelUpdates, isSingleChannel, duration)
          ELSE 0
    /\ didReadToEnd = (hasState /\ TerminalAtConstruction(channelUpdates, isSingleChannel))
    /\ faulted = FALSE
    /\ decoderCalls = 0
    /\ appliedLog = <<>>
    /\ lastCall = Returned("construct", <<>>, <<>>)

Init ==
    /\ PartInit
    /\ parser = Unused
    /\ avio = Unused
    /\ rule = Unused

\* no part is driven: the facade holds none
NoPart == PartInit /\ dataEmpty /\ ~isSingleChannel

\* ------------------------------------------------------------------------
\* get10msPerChannel
\* ------------------------------------------------------------------------

\* variant: the flag is not consulted
IsTerminalIgnored(flag) == FALSE

\* the test of _didReadToEnd at the head of get10msPerChannel
IsTerminal(flag) == flag

\* the facade without a state object
TickAbsent ==
    /\ ~faulted
    /\ ~hasState
    /\ lastCall' = Returned("get10msPerChannel", <<>>, <<>>)
    /\ UNCHANGED <<config, part, faulted, decoderCalls, appliedLog, units>>

\* the early return on _didReadToEnd
TickTerminal ==
    /\ ~faulted
    /\ hasState
    /\ IsTerminal(didReadToEnd)
    /\ lastCall' = Returned("get10msPerChannel", <<>>, <<>>)
    /\ UNCHANGED <<config, part, faulted, decoderCalls, appliedLog, units>>

\* readPcm reports no samples
TickEndOfStream ==
    /\ ~faulted
    /\ hasState
    /\ ~IsTerminal(didReadToEnd)
    /\ \E read \in EndReads :
          /\ currentChannelMapping' =
                ApplyDueUpdates(currentChannelMapping, channelUpdates, frameIndex)
          /\ appliedLog' = appliedLog \o DuePositions(channelUpdates, frameIndex)
          /\ decoderCalls' = decoderCalls + 1
          /\ didReadToEnd' = TRUE
          /\ lastCall' = Returned("get10msPerChannel", <<read>>, <<>>)
    /\ UNCHANGED <<config, hasState, allSsrcs, pcm10ms, frameIndex,
                   remainingMilliseconds, faulted, units>>

\* a successful tick in single-channel mode
TickSingle ==
    /\ ~faulted
    /\ hasState
    /\ ~IsTerminal(didReadToEnd)
    /\ isSingleChannel
    /\ frameIndex < MaxTicks
    /\ \E read \in GoodReads :
          LET pcm == PcmBuffer(read)
          IN  /\ pcm10ms' = pcm
              /\ currentChannelMapping' =
                    ApplyDueUpdates(currentChannelMapping, channelUpdates, frameIndex)
              /\ appliedLog' = appliedLog \o DuePositions(channelUpdates, frameIndex)
              /\ decoderCalls' = decoderCalls + 1
              /\ lastCall' = Returned("get10msPerChannel", <<read>>,
                                       SingleChannels(pcm, read))
              /\ remainingMilliseconds' = DecrementRemaining(remainingMilliseconds)
              /\ frameIndex' = frameIndex + 1
    /\ UNCHANGED <<config, hasState, allSsrcs, didReadToEnd, faulted, units>>

\* a successful tick in multiplexed mode; a read outside the decoded samples
\* yields whatever value lies there
TickMultiplexed ==
    /\ ~faulted
    /\ hasState
    /\ ~IsTerminal(didReadToEnd)
    /\ ~isSingleChannel
    /\ frameIndex < MaxTicks
    /\ \E read \in GoodReads :
          LET pcm == PcmBuffer(read)
              table == ApplyDueUpdates(currentChannelMapping, channelUpdates, frameIndex)
          IN  \E stray \in [StrayIndices(table, allSsrcs, read) -> StrayValues] :
                 /\ pcm10ms' = pcm
                 /\ currentChannelMapping' = table
                 /\ appliedLog' = appliedLog \o DuePositions(channelUpdates, frameIndex)
                 /\ decoderCalls' = decoderCalls + 1
                 /\ lastCall' =
                       Returned("get10msPerChannel", <<read>>,
                                MultiplexedChannels(table, allSsrcs, pcm, read, stray))
                 /\ remainingMilliseconds' = DecrementRemaining(remainingMilliseconds)
                 /\ frameIndex' = frameIndex + 1
    /\ UNCHANGED <<config, hasState, allSsrcs, didReadToEnd, faulted, units>>

\* a tick in multiplexed mode whose read outside the decoded samples hits
\* unmapped memory: the call never returns
TickFault ==
    /\ ~faulted
    /\ hasState
    /\ ~IsTerminal(didReadToEnd)
    /\ ~isSingleChannel
    /\ frameIndex < MaxTicks
    /\ \E read \in GoodReads :
          LET pcm == PcmBuffer(read)
              table == ApplyDueUpdates(currentChannelMapping, channelUpdates, frameIndex)
          IN  /\ StrayIndices(table, allSsrcs, read) # {}
              /\ pcm10ms' = pcm
              /\ currentChannelMapping' = table
              /\ appliedLog' = appliedLog \o DuePositions(channelUpdates, frameIndex)
              /\ decoderCalls' = decoderCalls + 1
              /\ faulted' = TRUE
              /\ lastCall' = Returned("fault", <<read>>, <<>>)
    /\ UNCHANGED <<config, hasState, allSsrcs, frameIndex, remainingMilliseconds,
                   didReadToEnd, units>>

get10msPerChannel ==
    \/ TickAbsent
    \/ TickTerminal
    \/ TickEndOfStream
    \/ TickSingle
    \/ TickMultiplexed
    \/ TickFault

\* ------------------------------------------------------------------------
\* Queries
\* ------------------------------------------------------------------------

\* AudioStreamingPart::getRemainingMilliseconds
RemainingMillisecondsOf(owned, ms) == IF owned THEN ms ELSE 0

\* AudioStreamingPart::getEndpointMapping
EndpointMappingOf(owned, mapping) == IF owned THEN mapping ELSE {}

getRemainingMilliseconds ==
    /\ ~faulted
    /\ lastCall' = Returned("getRemainingMilliseconds", <<>>,
                            RemainingMillisecondsOf(hasState, remainingMilliseconds))
    /\ UNCHANGED <<config, part, faulted, decoderCalls, appliedLog, units>>

getEndpointMapping ==
    /\ ~faulted
    /\ lastCall' = Returned("getEndpointMapping", <<>>,
                            EndpointMappingOf(hasState, endpointMapping))
    /\ UNCHANGED <<config, part, faulted, decoderCalls, appliedLog, units>>

Next ==
    \/ get10msPerChannel
    \/ getRemainingMilliseconds
    \/ getEndpointMapping

Spec == Init /\ [][Next]_vars

\* ------------------------------------------------------------------------
\* updateCurrentMapping on its own
\* ------------------------------------------------------------------------

RuleSsrcs == 1 .. MaxBindings

RuleChannels == 0 .. (MaxBindings - 1)

\* rule.table is the table, rule.before the table ahead of the latest call,
\* rule.update the arguments of that call (<<>> before the first)
RuleInit ==
    /\ NoPart
    /\ parser = Unused
    /\ avio = Unused
    /\ rule = [pc |-> "table", table |-> <<>>, before |-> <<>>, update |-> <<>>]

\* one call updateCurrentMapping(ssrc, channelIndex)
ApplyRule ==
    /\ \E ssrc \in RuleSsrcs, channelIndex \in RuleChannels :
          rule' = [pc |-> "table",
                   table |-> updateCurrentMapping(rule.table, ssrc, channelIndex),
                   before |-> rule.table,
                   update |-> <<[ssrc |-> ssrc, channelIndex |-> channelIndex]>>]
    /\ UNCHANGED <<config, part, observed, parser, avio>>

RuleNext == ApplyRule

RuleSpec == RuleInit /\ [][RuleNext]_vars

\* ------------------------------------------------------------------------
\* AVIOContextImpl
\* ------------------------------------------------------------------------

\* AVERROR_EOF, FFERRTAG('E', 'O', 'F', ' ')
AVERROR_EOF == -541478725

\* AVSEEK_SIZE
AVSEEK_SIZE == 65536

\* the buffers handed to the constructor: n bytes, all different
FileDatas == {[k \in 1 .. n |-> 10 + k] : n \in 0 .. MaxFile}

\* bufferSize arguments of read
ReadSizes == 0 .. (MaxFile + 1)

\* offset arguments of seek
SeekOffsets == -2 .. (MaxFile + 2)

\* whence arguments of seek: SEEK_SET, SEEK_CUR, SEEK_END, AVSEEK_SIZE,
\* AVSEEK_FORCE
SeekModes == {0, 1, 2, AVSEEK_SIZE, 131072}

Min(a, b) == IF a < b THEN a ELSE b

\* variant: the count is not cut to the bytes that remain
BytesToReadUncut(bufferSize, size, position) == bufferSize

\* bytesToRead of read
BytesToRead(bufferSize, size, position) ==
    LET wanted == Min(bufferSize, size - position)
    IN  IF wanted < 0 THEN 0 ELSE wanted

\* variant: the cursor is left where it was
CursorNotAdvanced(position, bytesToRead) == position

\* _fileReadPosition after the copy
CursorAfterRead(position, bytesToRead) == position + bytesToRead

\* the byte memcpy finds at a 0-based position
ByteAt(data, position) ==
    IF position + 1 \in DOMAIN data THEN data[position + 1] ELSE 0

\* the bytes memcpy moves to the caller's buffer
CopiedBytes(data, position, bytesToRead) ==
    [k \in 1 .. bytesToRead |-> ByteAt(data, position + k - 1)]

\* variant: a negative offset is not raised to 0
SeekOffsetNoFloor(offset, size) == Min(offset, size)

\* seekOffset of seek
SeekOffset(offset, size) ==
    LET capped == Min(offset, size)
    IN  IF capped < 0 THEN 0 ELSE capped

\* avio.call is the latest call (<<>> before the first), avio.base the cursor
\* left by the latest repositioning, avio.got the bytes read since then
AvioInit ==
    /\ NoPart
    /\ parser = Unused
    /\ rule = Unused
    /\ \E data \in FileDatas :
          avio = [pc |-> "open", fileData |-> data, fileReadPosition |-> 0,
                  call |-> <<>>, base |-> 0, got |-> <<>>]

\* AVIOContextImpl::read with bytes to copy
ReadBytes ==
    /\ avio.pc = "open"
    /\ \E bufferSize \in ReadSizes :
          LET size == Len(avio.fileData)
              bytesToRead == BytesToRead(bufferSize, size, avio.fileReadPosition)
              copied == CopiedBytes(avio.fileData, avio.fileReadPosition, bytesToRead)
          IN  /\ bytesToRead > 0
              /\ avio' = [avio EXCEPT
                    !.fileReadPosition = CursorAfterRead(avio.fileReadPosition, bytesToRead),
                    !.call = <<[op |-> "read", bufferSize |-> bufferSize,
                                from |-> avio.fileReadPosition, copied |-> copied,
                                ret |-> bytesToRead]>>,
                    !.got = avio.got \o copied]
    /\ UNCHANGED <<config, part, observed, parser, rule>>

\* AVIOContextImpl::read with nothing to copy
ReadNothing ==
    /\ avio.pc = "open"
    /\ \E bufferSize \in ReadSizes :
          LET size == Len(avio.fileData)
              bytesToRead == BytesToRead(bufferSize, size, avio.fileReadPosition)
          IN  /\ ~(bytesToRead > 0)
              /\ avio' = [avio EXCEPT
                    !.call = <<[op |-> "read", bufferSize |-> bufferSize,
                                from |-> avio.fileReadPosition, copied |-> <<>>,
                                ret |-> AVERROR_EOF]>>]
    /\ UNCHANGED <<config, part, observed, parser, rule>>

\* AVIOContextImpl::seek asked for the size
SeekSize ==
    /\ avio.pc = "open"
    /\ \E offset \in SeekOffsets, whence \in SeekModes :
          /\ whence = AVSEEK_SIZE
          /\ avio' = [avio EXCEPT
                !.call = <<[op |-> "seek", offset |-> offset, whence |-> whence,
                            from |-> avio.fileReadPosition,
                            ret |-> Len(avio.fileData)]>>]
    /\ UNCHANGED <<config, part, observed, parser, rule>>

\* AVIOContextImpl::seek asked to move the cursor
SeekSet ==
    /\ avio.pc = "open"
    /\ \E offset \in SeekOffsets, whence \in SeekModes :
          LET seekOffset == SeekOffset(offset, Len(avio.fileData))
          IN  /\ whence # AVSEEK_SIZE
              /\ avio' = [avio EXCEPT
                    !.fileReadPosition = seekOffset,
                    !.call = <<[op |-> "seek", offset |-> offset, whence |-> whence,
                                from |-> avio.fileReadPosition, ret |-> seekOffset]>>,
                    !.base = seekOffset,
                    !.got = <<>>]
    /\ UNCHANGED <<config, part, observed, parser, rule>>

AvioNext ==
    \/ ReadBytes
    \/ ReadNothing
    \/ SeekSize
    \/ SeekSet

AvioSpec == AvioInit /\ [][AvioNext]_vars

\* ------------------------------------------------------------------------
\* readInt32 and parseChannelUpdates
\* ------------------------------------------------------------------------

\* A 32-bit word is the pair <<high, low>> of its 16-bit halves, so that
\* every uint32_t value has a representation: its value is
\* high * 65536 + low.

\* the four bytes of a 32-bit word in memory order (little-endian)
Encode32(word) ==
    << word[2] % 256, word[2] \div 256, word[1] % 256, word[1] \div 256 >>

\* the (frameIndex, channelId, ssrc) words a producer may write
ParserRecords ==
    { << <<0, 0>>, <<0, 1>>, <<0, 100>> >>,
      << <<65535, 65535>>, <<0, 0>>, <<32768, 100>> >>,
      << <<0, 258>>, <<1, 0>>, <<256, 0>> >> }

\* the channelCount words a producer may write
ParserChannelCounts == { <<0, 0>>, <<0, 2>> }

\* the updateCount words a producer may write
ParserCounts == { <<0, n>> : n \in 0 .. (MaxRecords + 1) } \cup { <<65535, 65535>> }

\* cursors at which parsing may start; the bytes ahead of it are not parsed
StartCursors == {0, 3}

RECURSIVE EncodeRecords(_)
EncodeRecords(records) ==
    IF records = <<>> THEN <<>>
    ELSE Encode32(Head(records)[1]) \o Encode32(Head(records)[2])
             \o Encode32(Head(records)[3]) \o EncodeRecords(Tail(records))

\* the bytes [channelCount][updateCount][records]
EncodeUpdates(channels, count, records) ==
    Encode32(channels) \o Encode32(count) \o EncodeRecords(records)

\* variant: a read is allowed with three bytes left
CanReadOffByOne(length, offset) == ~(offset + 4 > length + 1)

\* the length test of readInt32
CanRead(length, offset) == ~(offset + 4 > length)

\* variant: the word is assembled from the most significant byte down
Int32AtBigEndian(data, offset) ==
    << ByteAt(data, offset) * 256 + ByteAt(data, offset + 1),
       ByteAt(data, offset + 2) * 256 + ByteAt(data, offset + 3) >>

\* the word memcpy reads at the offset, as the uint32_t readInt32 returns
Int32At(data, offset) ==
    << ByteAt(data, offset + 2) + ByteAt(data, offset + 3) * 256,
       ByteAt(data, offset) + ByteAt(data, offset + 1) * 256 >>

\* readInt32: <<value>>, or <<>> for absl::nullopt
readInt32(data, offset) ==
    IF CanRead(Len(data), offset) THEN <<Int32At(data, offset)>> ELSE <<>>

\* offset after readInt32
OffsetAfter(data, offset) == IF CanRead(Len(data), offset) THEN offset + 4 ELSE offset

\* did that readInt32 copy bytes from beyond the end of data
ReadsBeyond(data, offset) == CanRead(Len(data), offset) /\ offset + 4 > Len(data)

\* a uint32_t assigned to an int
AsInt(word) ==
    IF word[1] >= 32768 THEN (word[1] - 65536) * 65536 + word[2]
    ELSE word[1] * 65536 + word[2]

\* int i < uint32_t count, compared as unsigned; i is never negative
LessThanCount(i, count) ==
    \/ i \div 65536 < count[1]
    \/ i \div 65536 = count[1] /\ i % 65536 < count[2]

\* parser.given is what the producer encoded and parser.cut how many bytes
\* of it reached the buffer; parser.beyond records a read past the buffer
ParserInit ==
    /\ NoPart
    /\ avio = Unused
    /\ rule = Unused
    /\ \E channels \in ParserChannelCounts, count \in ParserCounts,
          records \in SeqsUpTo(ParserRecords, MaxRecords), start \in StartCursors :
          LET encoded == EncodeUpdates(channels, count, records)
          IN  \E cut \in 0 .. Len(encoded) :
                 parser = [pc |-> "channels",
                           data |-> [k \in 1 .. start |-> 255] \o SubSeq(encoded, 1, cut),
                           start |-> start,
                           offset |-> start,
                           given |-> [channels |-> channels, count |-> count,
                                      records |-> records],
                           cut |-> cut,
                           count |-> <<0, 0>>,
                           i |-> 0,
                           update |-> [frameIndex |-> 0, id |-> 0, ssrc |-> <<0, 0>>],
                           result |-> <<>>,
                           beyond |-> FALSE]

\* parser after a readInt32 that found too few bytes: return {}
ReturnEmpty == [parser EXCEPT !.pc = "done", !.result = <<>>]

\* parser after a readInt32 at parser.offset, leaving out what is done with
\* the value
AfterRead ==
    [parser EXCEPT !.offset = OffsetAfter(parser.data, parser.offset),
                   !.beyond = parser.beyond \/ ReadsBeyond(parser.data, parser.offset)]

\* auto channels = readInt32(data, offset)
ParseChannels ==
    /\ parser.pc = "channels"
    /\ parser' = IF readInt32(parser.data, parser.offset) = <<>>
                 THEN ReturnEmpty
                 ELSE [AfterRead EXCEPT !.pc = "count"]
    /\ UNCHANGED <<config, part, observed, avio, rule>>

\* auto count = readInt32(data, offset), and int i = 0
ParseCount ==
    /\ parser.pc = "count"
    /\ LET count == readInt32(parser.data, parser.offset)
       IN  parser' = IF count = <<>>
                     THEN ReturnEmpty
                     ELSE [AfterRead EXCEPT !.pc = "test", !.count = count[1], !.i = 0]
    /\ UNCHANGED <<config, part, observed, avio, rule>>

\* i < count.value(), compared as unsigned; return result when it fails
ParseTest ==
    /\ parser.pc = "test"
    /\ parser' = IF LessThanCount(parser.i, parser.count)
                 THEN [parser EXCEPT !.pc = "frameIndex"]
                 ELSE [parser EXCEPT !.pc = "done"]
    /\ UNCHANGED <<config, part, observed, avio, rule>>

\* auto frameIndex = readInt32(data, offset)
ParseFrameIndex ==
    /\ parser.pc = "frameIndex"
    /\ LET frameIndexRead == readInt32(parser.data, parser.offset)
       IN  parser' = IF frameIndexRead = <<>>
                     THEN ReturnEmpty
                     ELSE [AfterRead EXCEPT !.pc = "channelId",
                              !.update.frameIndex = AsInt(frameIndexRead[1])]
    /\ UNCHANGED <<config, part, observed, avio, rule>>

\* auto channelId = readInt32(data, offset)
ParseChannelId ==
    /\ parser.pc = "channelId"
    /\ LET channelId == readInt32(parser.data, parser.offset)
       IN  parser' = IF channelId = <<>>
                     THEN ReturnEmpty
                     ELSE [AfterRead EXCEPT !.pc = "ssrc",
                              !.update.id = AsInt(channelId[1])]
    /\ UNCHANGED <<config, part, observed, avio, rule>>

\* auto ssrc = readInt32(data, offset), result.push_back(update) and i++
ParseSsrc ==
    /\ parser.pc = "ssrc"
    /\ LET ssrc == readInt32(parser.data, parser.offset)
       IN  parser' = IF ssrc = <<>>
                     THEN ReturnEmpty
                     ELSE [AfterRead EXCEPT !.pc = "test",
                              !.result = Append(parser.result,
                                                [parser.update EXCEPT !.ssrc = ssrc[1]]),
                              !.i = parser.i + 1]
    /\ UNCHANGED <<config, part, observed, avio, rule>>

ParserNext ==
    \/ ParseChannels
    \/ ParseCount
    \/ ParseTest
    \/ ParseFrameIndex
    \/ ParseChannelId
    \/ ParseSsrc

\* the function runs to its return once called
ParserSpec == ParserInit /\ [][ParserNext]_vars /\ WF_vars(ParserNext)

TypeOK ==
    /\ frameIndex \in 0 .. MaxTicks
    /\ remainingMilliseconds \in Nat
    /\ decoderCalls \in Nat

\* ------------------------------------------------------------------------
\* Vocabulary of the properties
\* ------------------------------------------------------------------------

\* the latest call was get10msPerChannel and it returned
TickReturned == lastCall.op = "get10msPerChannel"

\* the latest call asked the decoder and got samples
GotSamples == lastCall.read # <<>> /\ lastCall.read[1].numSamples > 0

\* the latest call was a tick that returned the slices of a decode
SuccessfulTick == TickReturned /\ GotSamples

\* sample count and channel count of the latest decode
NumSamples == lastCall.read[1].numSamples

NumChannels == lastCall.read[1].numChannels

\* the ssrc has a binding in the table
Bound(table, ssrc) == \E k \in DOMAIN table : table[k].ssrc = ssrc

\* no two bindings share an ssrc or a channelIndex
OneToOne(table) ==
    \A i, j \in DOMAIN table :
        i # j => /\ table[i].ssrc # table[j].ssrc
                 /\ table[i].channelIndex # table[j].channelIndex

\* the buffer holds count samples, all of them 0
AllZero(pcmData, count) ==
    /\ Len(pcmData) = count
    /\ \A j \in 1 .. count : pcmData[j] = 0

\* the buffer holds the samples of decoder channel c of _pcm10ms
IsChannel(pcmData, c) ==
    /\ Len(pcmData) = NumSamples
    /\ \A j \in 1 .. NumSamples : pcmData[j] = pcm10ms[c + (j - 1) * NumChannels + 1]

\* the updates of frame f, in list order
UpdatesOfFrame(updates, f) == SelectSeq(updates, LAMBDA u : u.frameIndex = f)

\* the updates with 0 <= frameIndex <= t, by frameIndex, then by list position
RECURSIVE UpdatesThrough(_, _)
UpdatesThrough(updates, t) ==
    IF t < 0 THEN <<>>
    ELSE UpdatesThrough(updates, t - 1) \o UpdatesOfFrame(updates, t)

\* the stability rule applied to a list of updates, one after the other
RECURSIVE ApplyAll(_, _)
ApplyAll(table, list) ==
    IF list = <<>> THEN table
    ELSE ApplyAll(updateCurrentMapping(table, Head(list).ssrc, Head(list).id), Tail(list))

\* ------------------------------------------------------------------------
\* C1
\* ------------------------------------------------------------------------

\* C1: in every reachable state of a part no two bindings of
\* _currentChannelMapping share an ssrc and no two share a channelIndex.
C1_OneToOne == OneToOne(currentChannelMapping)

\* an update that took the ssrc of one binding and the channel of another
C1_Witness ==
    /\ channelUpdates = SwapSlots
    /\ frameIndex = 2
    /\ currentChannelMapping = <<[ssrc |-> 100, channelIndex |-> 1]>>

\* ------------------------------------------------------------------------
\* C2
\* ------------------------------------------------------------------------

\* C2: every multiplexed tick that returns the slices of a decode returns
\* exactly one entry per SSRC of the ChannelUpdate list, in ascending SSRC
\* order, whatever the mapping table holds; allSsrcs is the set of the SSRCs of
\* the list, so the sequence is the same on every such tick.
C2_StableSsrcs ==
    (SuccessfulTick /\ ~isSingleChannel) =>
        LET ret == lastCall.ret
        IN  /\ allSsrcs = {channelUpdates[k].ssrc : k \in DOMAIN channelUpdates}
            /\ Len(ret) = Cardinality(allSsrcs)
            /\ {ret[i].ssrc : i \in DOMAIN ret} = allSsrcs
            /\ \A i, j \in DOMAIN ret : i < j => ret[i].ssrc < ret[j].ssrc

\* a tick with two SSRCs, listed in descending order, one of them unbound
C2_Witness ==
    /\ SuccessfulTick
    /\ ~isSingleChannel
    /\ Len(channelUpdates) = 2
    /\ channelUpdates[1].ssrc = 200
    /\ channelUpdates[2].ssrc = 100
    /\ Len(currentChannelMapping) = 1
    /\ Len(lastCall.ret) = 2

\* ------------------------------------------------------------------------
\* C3
\* ------------------------------------------------------------------------

\* the table the claim expects on the tick of frame index t
ExpectedTable(t) == ApplyAll(<<>>, UpdatesThrough(channelUpdates, t))

\* the entry is what slicing with the table gives: silence for an unbound
\* SSRC, the decoder channel for an SSRC bound to a channel of the decode
SlicedBy(table, entry) ==
    LET c == getCurrentMappedChannelIndex(table, entry.ssrc)
    IN  /\ c = NoChannel => AllZero(entry.pcmData, NumSamples)
        /\ (c # NoChannel /\ c[1] >= 0 /\ c[1] < NumChannels) =>
              IsChannel(entry.pcmData, c[1])

\* C3: on the multiplexed tick of frame index t the table used to slice the
\* PCM is the stability rule applied, from the empty table, to the updates
\* with 0 <= frameIndex <= t by frameIndex and list position; with the updates
\* (0, 0, 100), (5, 0, 200), ticks 0..4 give SSRC 100 channel 0 and SSRC 200
\* silence, and ticks from 5 on give SSRC 200 channel 0 and SSRC 100 silence.
C3_ReassignmentTiming ==
    (SuccessfulTick /\ ~isSingleChannel) =>
        LET t == frameIndex - 1
            ret == lastCall.ret
        IN  /\ currentChannelMapping = ExpectedTable(t)
            /\ \A i \in DOMAIN ret : SlicedBy(ExpectedTable(t), ret[i])
            /\ channelUpdates = ReassignAtFive =>
                  /\ Len(ret) = 2
                  /\ ret[1].ssrc = 100
                  /\ ret[2].ssrc = 200
                  /\ t <= 4 => IsChannel(ret[1].pcmData, 0) /\ AllZero(ret[2].pcmData, NumSamples)
                  /\ t >= 5 => IsChannel(ret[2].pcmData, 0) /\ AllZero(ret[1].pcmData, NumSamples)

\* the tick of frame 5 of the example, with a decode of two channels
C3_Witness ==
    /\ SuccessfulTick
    /\ ~isSingleChannel
    /\ channelUpdates = ReassignAtFive
    /\ frameIndex = 6
    /\ NumSamples = 2
    /\ NumChannels = 2
    /\ lastCall.ret[2].pcmData = <<0, 2>>
    /\ lastCall.ret[1].pcmData = <<0, 0>>

\* ------------------------------------------------------------------------
\* C4
\* ------------------------------------------------------------------------

\* C4: on every successful multiplexed tick every SSRC of allSsrcs without a
\* binding in the table has an entry whose buffer has the length of the
\* decoded sample count, whose numSamples is that count and whose samples are
\* all 0.
C4_Silence ==
    (SuccessfulTick /\ ~isSingleChannel) =>
        \A s \in allSsrcs :
            ~Bound(currentChannelMapping, s) =>
                /\ \E i \in DOMAIN lastCall.ret : lastCall.ret[i].ssrc = s
                /\ \A i \in DOMAIN lastCall.ret :
                      lastCall.ret[i].ssrc = s =>
                          /\ lastCall.ret[i].numSamples = NumSamples
                          /\ AllZero(lastCall.ret[i].pcmData, NumSamples)

\* a tick of two samples with an unbound SSRC next to a bound one
C4_Witness ==
    /\ SuccessfulTick
    /\ ~isSingleChannel
    /\ NumSamples = 2
    /\ allSsrcs = {100, 200}
    /\ Bound(currentChannelMapping, 100)
    /\ ~Bound(currentChannelMapping, 200)
    /\ lastCall.ret[1].pcmData # <<0, 0>>
    /\ lastCall.ret[2].pcmData = <<0, 0>>

\* ------------------------------------------------------------------------
\* C5
\* ------------------------------------------------------------------------

\* a tick on which the decoder reported no samples has just returned
SawEndOfStream ==
    TickReturned /\ lastCall.read # <<>> /\ lastCall.read[1].numSamples <= 0

\* the step leaves the part as it is and, if it is a tick, the tick returns
\* an empty sequence without asking the decoder
StaysTerminal ==
    /\ didReadToEnd'
    /\ frameIndex' = frameIndex
    /\ remainingMilliseconds' = remainingMilliseconds
    /\ currentChannelMapping' = currentChannelMapping
    /\ decoderCalls' = decoderCalls
    /\ lastCall'.op = "get10msPerChannel" =>
          lastCall'.ret = <<>> /\ lastCall'.read = <<>>
    /\ lastCall'.op \in {"get10msPerChannel", "getRemainingMilliseconds",
                         "getEndpointMapping"}

\* C5: a tick that saw the decoder report a sample count <= 0 leaves
\* _didReadToEnd true, and once _didReadToEnd is true (from such a tick or
\* from construction) it stays true, and every later get10msPerChannel returns
\* an empty sequence without calling the decoder and without changing
\* frameIndex, remainingMilliseconds or the mapping table.
C5_TerminalAbsorbing ==
    /\ [](SawEndOfStream => didReadToEnd)
    /\ [][didReadToEnd => StaysTerminal]_vars

\* a terminal tick of a part that had ticked twice before its stream ended
C5_Witness ==
    /\ didReadToEnd
    /\ frameIndex = 2
    /\ decoderCalls = 3
    /\ currentChannelMapping # <<>>
    /\ TickReturned
    /\ lastCall.read = <<>>
    /\ lastCall.ret = <<>>

\* ------------------------------------------------------------------------
\* C6
\* ------------------------------------------------------------------------

\* the step is a tick that returned the slices of a decode
SuccessfulStep ==
    /\ lastCall'.op = "get10msPerChannel"
    /\ lastCall'.read # <<>>
    /\ lastCall'.read[1].numSamples > 0

\* the step is a tick that returned an empty sequence
EmptyStep == lastCall'.op = "get10msPerChannel" /\ lastCall'.ret = <<>>

\* C6: remainingMilliseconds never increases and is never negative, each
\* successful tick sets it to max(0, previous - 10); frameIndex grows by
\* exactly 1 on each successful tick and is unchanged on every tick that
\* returns an empty sequence.
C6_Monotonic ==
    /\ [](remainingMilliseconds >= 0)
    /\ [][ /\ remainingMilliseconds' <= remainingMilliseconds
           /\ SuccessfulStep =>
                 /\ remainingMilliseconds' =
                       (IF remainingMilliseconds > 10 THEN remainingMilliseconds - 10
                        ELSE 0)
                 /\ frameIndex' = frameIndex + 1
           /\ EmptyStep => frameIndex' = frameIndex
           /\ ~SuccessfulStep => frameIndex' = frameIndex ]_vars

\* the second tick of a part of 15 ms: 15, 5, 0
C6_Witness ==
    /\ SuccessfulTick
    /\ duration = 15
    /\ frameIndex = 2
    /\ remainingMilliseconds = 0

\* ------------------------------------------------------------------------
\* C7
\* ------------------------------------------------------------------------

\* a multiplexed tick got samples from the decoder and went on to slice them
SlicedMultiplexed ==
    /\ lastCall.op \in {"get10msPerChannel", "fault"}
    /\ GotSamples
    /\ ~isSingleChannel

\* C7: on every multiplexed tick that slices a decode, every index
\* sourceChannelIndex + j * numChannels read from the PCM buffer lies in
\* [0, numSamples * numChannels): every channel index bound to an SSRC of
\* allSsrcs is at least 0 and below numChannels.
C7_SliceInBounds ==
    SlicedMultiplexed =>
        \A k \in DOMAIN currentChannelMapping :
            currentChannelMapping[k].ssrc \in allSsrcs =>
                /\ currentChannelMapping[k].channelIndex >= 0
                /\ currentChannelMapping[k].channelIndex < NumChannels
                /\ \A j \in 0 .. (NumSamples - 1) :
                      LET idx == currentChannelMapping[k].channelIndex + j * NumChannels
                      IN  idx >= 0 /\ idx < NumSamples * NumChannels

\* ------------------------------------------------------------------------
\* C8
\* ------------------------------------------------------------------------

\* C8: a part constructed from an empty byte vector owns no state, and
\* whatever is called on it, getRemainingMilliseconds returns 0,
\* getEndpointMapping returns an empty map and get10msPerChannel returns an
\* empty sequence without asking the decoder, for either value of the
\* single-channel flag.
C8_InertPart ==
    dataEmpty =>
        /\ ~hasState
        /\ decoderCalls = 0
        /\ lastCall.op = "getRemainingMilliseconds" => lastCall.ret = 0
        /\ lastCall.op = "getEndpointMapping" => lastCall.ret = {}
        /\ lastCall.op = "get10msPerChannel" => lastCall.ret = <<>>
        /\ lastCall.op # "fault"

\* a tick of a single-channel part built from an empty vector
C8_Witness ==
    /\ dataEmpty
    /\ isSingleChannel
    /\ lastCall.op = "get10msPerChannel"

\* ------------------------------------------------------------------------
\* C9
\* ------------------------------------------------------------------------

\* C9: a multiplexed part with an empty ChannelUpdate list is terminal from
\* construction, its getRemainingMilliseconds returns 0 whatever the pipeline's
\* duration and its get10msPerChannel returns an empty sequence without calling
\* the decoder; a single-channel part with an empty list is not terminal at
\* construction and its remaining duration is the pipeline's total duration.
C9_EmptyUpdateList ==
    (hasState /\ channelUpdates = <<>>) =>
        /\ ~isSingleChannel =>
              /\ didReadToEnd
              /\ decoderCalls = 0
              /\ remainingMilliseconds = 0
              /\ lastCall.op = "getRemainingMilliseconds" => lastCall.ret = 0
              /\ lastCall.op = "get10msPerChannel" => lastCall.ret = <<>>
        /\ (isSingleChannel /\ lastCall.op = "construct") =>
              /\ ~didReadToEnd
              /\ remainingMilliseconds = duration

\* the remaining duration asked of a multiplexed part without updates whose
\* pipeline reports 15 ms
C9_Witness ==
    /\ hasState
    /\ channelUpdates = <<>>
    /\ ~isSingleChannel
    /\ duration = 15
    /\ lastCall.op = "getRemainingMilliseconds"

\* ------------------------------------------------------------------------
\* C10
\* ------------------------------------------------------------------------

\* C10: in single-channel mode a successful tick with a decode of N channels
\* and S samples per channel returns N entries with SSRCs 1 .. N in that
\* order, entry i (0-based) holding S samples, sample j being element
\* i + j * N of the interleaved PCM, whatever the ChannelUpdate list holds.
C10_SingleChannel ==
    (SuccessfulTick /\ isSingleChannel) =>
        LET ret == lastCall.ret
        IN  /\ Len(ret) = NumChannels
            /\ \A i \in 0 .. (NumChannels - 1) :
                  /\ ret[i + 1].ssrc = i + 1
                  /\ ret[i + 1].numSamples = NumSamples
                  /\ Len(ret[i + 1].pcmData) = NumSamples
                  /\ \A j \in 0 .. (NumSamples - 1) :
                        ret[i + 1].pcmData[j + 1] = pcm10ms[i + j * NumChannels + 1]

\* a tick of two channels and two samples of a part whose updates bind SSRCs
C10_Witness ==
    /\ SuccessfulTick
    /\ isSingleChannel
    /\ NumChannels = 2
    /\ NumSamples = 2
    /\ currentChannelMapping # <<>>
    /\ lastCall.ret[2].pcmData = <<1, 3>>

\* ------------------------------------------------------------------------
\* C14
\* ------------------------------------------------------------------------

\* C14 as stated: in a part constructed with the single-channel flag no tick
\* modifies the active mapping table, which stays empty for the life of the
\* part, whatever ChannelUpdate list the part carries.
C14_TableStaysEmpty == (hasState /\ isSingleChannel) => currentChannelMapping = <<>>

\* the frame of the latest tick that reached the update loop, -1 before any
LastAppliedFrame == IF didReadToEnd THEN frameIndex ELSE frameIndex - 1

\* C14 as amended: in a part constructed with the single-channel flag the
\* apply step is not skipped; every tick that gets past the terminal test
\* applies the updates due at its frame by the stability rule, as in
\* multiplexed mode, so the table is the rule applied to the updates of the
\* frames ticked so far.
C14_SingleModeApplies ==
    (hasState /\ isSingleChannel) =>
        currentChannelMapping = ExpectedTable(LastAppliedFrame)

\* a successful single-channel tick that left a binding in the table
C14_Witness ==
    /\ SuccessfulTick
    /\ isSingleChannel
    /\ frameIndex = 1
    /\ currentChannelMapping = <<[ssrc |-> 200, channelIndex |-> 1]>>

\* ------------------------------------------------------------------------
\* C17
\* ------------------------------------------------------------------------

\* C17: on every successful multiplexed tick with S samples and N decoder
\* channels every returned entry has numSamples = S and a buffer of length S,
\* and for every SSRC bound to a channel c sample j of its buffer is element
\* c + j * N of the interleaved PCM.
C17_MappedDeinterleave ==
    (SuccessfulTick /\ ~isSingleChannel) =>
        \A i \in DOMAIN lastCall.ret :
            LET entry == lastCall.ret[i]
            IN  /\ entry.numSamples = NumSamples
                /\ Len(entry.pcmData) = NumSamples
                /\ \A k \in DOMAIN currentChannelMapping :
                      currentChannelMapping[k].ssrc = entry.ssrc =>
                          \A j \in 0 .. (NumSamples - 1) :
                              LET idx == currentChannelMapping[k].channelIndex
                                             + j * NumChannels
                              IN  /\ idx + 1 \in DOMAIN pcm10ms
                                  /\ entry.pcmData[j + 1] = pcm10ms[idx + 1]

\* ------------------------------------------------------------------------
\* C20
\* ------------------------------------------------------------------------

\* frame index of the update at a list position
FrameOf(k) == channelUpdates[k].frameIndex

\* C20: over the life of a part each update is applied at most once and the
\* updates are applied in non-decreasing frameIndex order; an update whose
\* frameIndex is negative or greater than the number of successful ticks is
\* never applied; the updates due on the frame at which the end of the stream
\* is detected are applied on that tick, although it returns an empty
\* sequence and does not advance frameIndex.
C20_AppliedOnce ==
    /\ \A a, b \in DOMAIN appliedLog :
          /\ a # b => appliedLog[a] # appliedLog[b]
          /\ a < b => FrameOf(appliedLog[a]) <= FrameOf(appliedLog[b])
    /\ \A k \in DOMAIN channelUpdates :
          (FrameOf(k) < 0 \/ FrameOf(k) > frameIndex) =>
              \A a \in DOMAIN appliedLog : appliedLog[a] # k
    /\ SawEndOfStream =>
          /\ \A k \in DOMAIN channelUpdates :
                FrameOf(k) = frameIndex =>
                    \E a \in DOMAIN appliedLog : appliedLog[a] = k
          /\ currentChannelMapping = ExpectedTable(frameIndex)
          /\ lastCall.ret = <<>>

\* the stream ends on the frame at which the third update of the swap is due
C20_Witness ==
    /\ SawEndOfStream
    /\ channelUpdates = SwapSlots
    /\ frameIndex = 1
    /\ appliedLog = <<1, 2, 3>>
    /\ currentChannelMapping = <<[ssrc |-> 100, channelIndex |-> 1]>>

\* ------------------------------------------------------------------------
\* C15
\* ------------------------------------------------------------------------

\* the entries of a table, as a set
Bindings(table) == {table[k] : k \in DOMAIN table}

\* the entries of the table that share neither field with the binding
Unrelated(table, b) ==
    SelectSeq(table, LAMBDA e : e.ssrc # b.ssrc /\ e.channelIndex # b.channelIndex)

\* the entries of the table other than the binding
Others(table, b) == SelectSeq(table, LAMBDA e : e # b)

\* C15: right after updateCurrentMapping(ssrc, channelIndex) on a one-to-one
\* table the table holds the binding, binds the ssrc to no other channel and
\* the channel to no other ssrc, and still holds every binding that shares
\* neither, unchanged and in the same relative order; at most two bindings
\* were removed.
C15_NewestWins ==
    (rule.pc = "table" /\ rule.update # <<>>) =>
        LET b == rule.update[1]
        IN  /\ OneToOne(rule.before)
            /\ b \in Bindings(rule.table)
            /\ \A e \in Bindings(rule.table) :
                  (e.ssrc = b.ssrc \/ e.channelIndex = b.channelIndex) => e = b
            /\ Others(rule.table, b) = Unrelated(rule.before, b)
            /\ Cardinality(Bindings(rule.before) \ Bindings(rule.table)) <= 2

\* an update that evicted two of three bindings
C15_Witness ==
    /\ rule.pc = "table"
    /\ rule.update # <<>>
    /\ Len(rule.before) = 3
    /\ Len(rule.table) = 2
    /\ rule.table[1] = rule.before[2]

\* ------------------------------------------------------------------------
\* C16
\* ------------------------------------------------------------------------

\* C16: applying updateCurrentMapping(ssrc, channelIndex) a second time in a
\* row gives the table the first application gave, with the same bindings in
\* the same order; and applying it to a table that already holds exactly that
\* binding, at any position, changes nothing.
C16_Idempotent ==
    /\ [][rule'.update = rule.update => rule'.table = rule.table]_vars
    /\ [][\A b \in Bindings(rule.table) :
             rule'.update = <<b>> => rule'.table = rule.table]_vars

\* the binding at the head of a table of three was applied again
C16_Witness ==
    /\ rule.pc = "table"
    /\ rule.update # <<>>
    /\ Len(rule.before) = 3
    /\ rule.before[1] = rule.update[1]
    /\ rule.table = rule.before

\* ------------------------------------------------------------------------
\* Vocabulary of the adapter's properties
\* ------------------------------------------------------------------------

\* the latest call of the adapter was a read, a seek
IsRead == avio.pc = "open" /\ avio.call # <<>> /\ avio.call[1].op = "read"

IsSeek == avio.pc = "open" /\ avio.call # <<>> /\ avio.call[1].op = "seek"

AvioCall == avio.call[1]

FileSize == Len(avio.fileData)

\* the bytes fileData[from .. from + count)
Slice(from, count) == SubSeq(avio.fileData, from + 1, from + count)

\* the read copied count bytes from its cursor on, moved the cursor by count
\* and returned count
ReadGave(count) ==
    /\ AvioCall.ret = count
    /\ AvioCall.copied = Slice(AvioCall.from, count)
    /\ avio.fileReadPosition = AvioCall.from + count

\* the read returned the end-of-stream signal and left the cursor alone
ReadGaveEof ==
    /\ AvioCall.ret = AVERROR_EOF
    /\ AvioCall.copied = <<>>
    /\ avio.fileReadPosition = AvioCall.from

\* ------------------------------------------------------------------------
\* C12
\* ------------------------------------------------------------------------

\* C12 as stated: for every cursor and every maxBytes >= 0, read copies
\* min(maxBytes, remaining) bytes from the cursor on, advances the cursor by
\* that count and returns it; it returns the end-of-stream signal, and never
\* 0, only when the cursor is at or past the end, leaving the cursor unchanged.
C12_ReadAsStated ==
    IsRead =>
        IF AvioCall.from >= FileSize
        THEN ReadGaveEof
        ELSE /\ ReadGave(Min(AvioCall.bufferSize, FileSize - AvioCall.from))
             /\ AvioCall.ret # AVERROR_EOF

\* C12 as amended: for every cursor and every maxBytes >= 1, read copies
\* min(maxBytes, remaining) bytes from the cursor on, advances the cursor by
\* that count and returns it; it returns the end-of-stream signal, and never
\* 0, exactly when that count is 0, that is when the cursor is at or past the
\* end or maxBytes is 0, and then the cursor is unchanged.
C12_Read ==
    IsRead =>
        /\ AvioCall.ret # 0
        /\ IF AvioCall.from >= FileSize \/ AvioCall.bufferSize = 0
           THEN ReadGaveEof
           ELSE /\ ReadGave(Min(AvioCall.bufferSize, FileSize - AvioCall.from))
                /\ AvioCall.ret # AVERROR_EOF

\* a read of 4 bytes with 2 left behind the cursor
C12_Witness ==
    /\ IsRead
    /\ FileSize = 3
    /\ AvioCall.from = 1
    /\ AvioCall.bufferSize = 4
    /\ AvioCall.ret = 2
    /\ AvioCall.copied = <<12, 13>>
    /\ avio.fileReadPosition = 3

\* ------------------------------------------------------------------------
\* C13
\* ------------------------------------------------------------------------

\* the offset brought into [0, bufferLength]
Clamped(offset) ==
    IF offset < 0 THEN 0 ELSE IF offset > FileSize THEN FileSize ELSE offset

\* the step is a read that copies bytes right after a seek that moved the
\* cursor
ReadAfterSeek ==
    /\ IsSeek
    /\ AvioCall.whence # AVSEEK_SIZE
    /\ avio'.call[1].op = "read"
    /\ avio'.call[1].ret # AVERROR_EOF

\* C13: a size query (whence 0x10000) returns the buffer length and leaves
\* the cursor unchanged; any other seek sets the cursor to the offset clamped
\* to [0, bufferLength] and returns that position, and a read that follows
\* starts at exactly that position.
C13_Seek ==
    /\ [](IsSeek =>
            IF AvioCall.whence = AVSEEK_SIZE
            THEN /\ AvioCall.ret = FileSize
                 /\ avio.fileReadPosition = AvioCall.from
            ELSE /\ AvioCall.ret = Clamped(AvioCall.offset)
                 /\ avio.fileReadPosition = Clamped(AvioCall.offset))
    /\ [][ReadAfterSeek =>
            avio'.call[1].copied =
                Slice(Clamped(AvioCall.offset), avio'.call[1].ret)]_vars

\* a seek to a negative offset from the middle of the buffer
C13_Witness ==
    /\ IsSeek
    /\ AvioCall.whence = 0
    /\ AvioCall.offset = -1
    /\ AvioCall.from = 2
    /\ AvioCall.ret = 0
    /\ avio.fileReadPosition = 0

\* ------------------------------------------------------------------------
\* C19
\* ------------------------------------------------------------------------

\* C19: the cursor stays within 0 .. fileData.size() under every interleaving
\* of reads (any bufferSize >= 0) and seeks (any offset, any whence); and the
\* reads with a positive bufferSize since the latest repositioning have
\* returned the bytes from that position on, in order, and return the
\* end-of-stream signal exactly once all of them were returned.
C19_CursorInBounds ==
    avio.pc = "open" =>
        /\ avio.fileReadPosition >= 0
        /\ avio.fileReadPosition <= FileSize
        /\ avio.got = SubSeq(avio.fileData, avio.base + 1, avio.fileReadPosition)
        /\ (IsRead /\ AvioCall.bufferSize > 0) =>
              /\ AvioCall.ret = AVERROR_EOF <=>
                    avio.got = SubSeq(avio.fileData, avio.base + 1, FileSize)
                        /\ AvioCall.copied = <<>>
              /\ AvioCall.ret = AVERROR_EOF => avio.fileReadPosition = FileSize

\* the end-of-stream signal after three bytes were read in two reads
C19_Witness ==
    /\ IsRead
    /\ AvioCall.bufferSize = 2
    /\ AvioCall.ret = AVERROR_EOF
    /\ avio.base = 0
    /\ avio.got = <<11, 12, 13>>

\* ------------------------------------------------------------------------
\* Vocabulary of the parser's properties
\* ------------------------------------------------------------------------

Parsing == parser.pc # "unused"

Parsed == Parsing /\ parser.pc = "done"

\* the bytes of the buffer from the starting cursor on
Available == Len(parser.data) - parser.start

\* the two's complement reading of a word: a word with the top bit set is
\* minus (its bitwise complement plus one)
Signed(word) ==
    IF word[1] < 32768 THEN word[1] * 65536 + word[2]
    ELSE 0 - ((65535 - word[1]) * 65536 + (65535 - word[2]) + 1)

\* the record a producer's words stand for
UpdateOf(words) ==
    [frameIndex |-> Signed(words[1]), id |-> Signed(words[2]), ssrc |-> words[3]]

\* ------------------------------------------------------------------------
\* C11
\* ------------------------------------------------------------------------

\* the bytes the header and the updateCount records take; only the header
\* when the updateCount word itself did not reach the buffer
BytesRequired ==
    IF parser.cut < 8 THEN 8 ELSE 8 + 12 * parser.given.count[2]

\* an updateCount beyond what any buffer holds
CountBeyondBuffer == parser.cut >= 8 /\ parser.given.count[1] > 0

\* C11: from every starting cursor in [0, length] parseChannelUpdates
\* terminates, every 4-byte read lies wholly inside the buffer, and when too
\* few bytes remain for channelCount, updateCount or a field of one of the
\* updateCount records the result is the empty sequence, never a partial
\* list; so every strict prefix of a well-formed encoding parses to the empty
\* sequence.
C11_ParserTotal ==
    /\ [](Parsing =>
            /\ ~parser.beyond
            /\ parser.offset >= parser.start
            /\ parser.offset <= Len(parser.data))
    /\ []((Parsed /\ (CountBeyondBuffer \/ Available < BytesRequired))
            => parser.result = <<>>)
    /\ (Parsing ~> Parsed)

\* an encoding of two records cut inside the second: the first is dropped
C11_Witness ==
    /\ Parsed
    /\ parser.given.count = <<0, 2>>
    /\ Len(parser.given.records) = 2
    /\ parser.cut = 28
    /\ parser.i = 1
    /\ parser.result = <<>>

\* ------------------------------------------------------------------------
\* C18
\* ------------------------------------------------------------------------

\* the updateCount the producer wrote, for a word whose high half is zero
GivenCount == parser.given.count[2]

\* C18: for a buffer that holds, from the cursor on, channelCount,
\* updateCount = n >= 0 and at least n complete 12-byte records,
\* parseChannelUpdates returns exactly n records in buffer order, record k
\* carrying the k-th (frameIndex, channelId, ssrc), and leaves the cursor
\* advanced by exactly 8 + 12 * n, whatever channelCount is.
C18_ParserSuccess ==
    (Parsed /\ parser.given.count[1] = 0 /\ Available >= 8 + 12 * GivenCount) =>
        /\ Len(parser.result) = GivenCount
        /\ \A k \in 1 .. GivenCount :
              parser.result[k] = UpdateOf(parser.given.records[k])
        /\ parser.offset = parser.start + 8 + 12 * GivenCount

\* two records parsed from cursor 3, the first with a negative frame index
C18_Witness ==
    /\ Parsed
    /\ parser.start = 3
    /\ parser.given.channels = <<0, 2>>
    /\ parser.given.count = <<0, 2>>
    /\ Len(parser.result) = 2
    /\ parser.result[1] = [frameIndex |-> -1, id |-> 0, ssrc |-> <<32768, 100>>]
    /\ parser.result[2] = [frameIndex |-> 258, id |-> 65536, ssrc |-> <<256, 0>>]
    /\ parser.offset = 35

====
